---- MODULE Spec2Model ----
(***************************************************************************)
(* Model of fmgr.py: FileExplorer (current directory), FileSelector        *)
(* (selection by index) and FileManager (copy / move / delete of the       *)
(* selection), over a small POSIX filesystem tree.  Spec is a caller of    *)
(* the three classes; MenuSpec is main_menu, the command loop.             *)
(*                                                                         *)
(* A path string is a sequence of tokens: the separator "/" or an entry    *)
(* name.  A filesystem node is the sequence of names from the root.        *)
(***************************************************************************)
EXTENDS Integers, Sequences, FiniteSets, TLC

VARIABLES
    fs,                          \* the filesystem: [dirs, files], sets of nodes
    order,                       \* the order os.listdir yields names in
    current_path,                \* FileExplorer._current_path
    selected_files,              \* FileSelector._selected_files
    current_directory_contents,  \* FileSelector._current_directory_contents
    last,                        \* the last call: [op, result, arg, from, again]
    calls,                       \* how many calls the caller has made
    menu                         \* main_menu: [loop, out], where its loop is and
                                 \* what it printed last

vars == <<fs, order, current_path, selected_files, current_directory_contents, last, calls,
          menu>>

\* ------------------------------------------------------------- bounds
\* longest sequence of calls a caller makes
MaxCalls == 3
\* longest index list a caller passes to select_files_by_indices
MaxIndices == 2

\* ------------------------------------------------------------- paths
SEP == "/"

Names == {"a", "b", "d", "t", "u", "x"}

Root == <<>>

\* working directory of the process: relative paths resolve against it
ProcCwd == Root

StartsWithSep(p) == Len(p) > 0 /\ p[1] = SEP

EndsWithSep(p) == Len(p) > 0 /\ p[Len(p)] = SEP

AllSep(p) == \A k \in 1..Len(p) : p[k] = SEP

\* position of the last separator of p, 0 when there is none (str.rfind + 1)
RFindSep(p) ==
    IF \E k \in 1..Len(p) : p[k] = SEP
    THEN CHOOSE k \in 1..Len(p) : p[k] = SEP /\ \A j \in (k+1)..Len(p) : p[j] # SEP
    ELSE 0

RECURSIVE RStripSep(_)
RStripSep(p) == IF EndsWithSep(p) THEN RStripSep(SubSeq(p, 1, Len(p) - 1)) ELSE p

\* posixpath.join(a, b)
Join(a, b) ==
    IF StartsWithSep(b) THEN b
    ELSE IF a = <<>> \/ EndsWithSep(a) THEN a \o b
    ELSE a \o <<SEP>> \o b

\* the head of posixpath.split(p) with its trailing separators left in place
DirnameKeepSep(p) == SubSeq(p, 1, RFindSep(p))

\* the head of posixpath.split(p) stripped of trailing separators even when it
\* consists of separators only: the parent of the root is the empty string
DirnameStripRoot(p) == RStripSep(SubSeq(p, 1, RFindSep(p)))

\* posixpath.dirname(p)
Dirname(p) ==
    LET head == SubSeq(p, 1, RFindSep(p))
    IN  IF head # <<>> /\ ~AllSep(head) THEN RStripSep(head) ELSE head

\* posixpath.basename(p)
Basename(p) == SubSeq(p, RFindSep(p) + 1, Len(p))

\* shutil._basename(p)
StripBasename(p) == Basename(RStripSep(p))

IsName(t) == t # SEP

\* the node a path string names
Node(p) ==
    IF StartsWithSep(p) THEN SelectSeq(p, IsName) ELSE ProcCwd \o SelectSeq(p, IsName)

IsPrefix(n, m) == Len(n) <= Len(m) /\ SubSeq(m, 1, Len(n)) = n

\* ------------------------------------------------------------- filesystem
Nodes(f) == f.dirs \cup f.files

\* os.stat(p): "dir", "file", or the errno
Stat(f, p) ==
    IF p = <<>> THEN "ENOENT"
    ELSE LET n == Node(p)
         IN  IF n \in f.dirs THEN "dir"
             ELSE IF n \in f.files
                  THEN (IF EndsWithSep(p) THEN "ENOTDIR" ELSE "file")
             ELSE IF \E k \in 1..(Len(n) - 1) : SubSeq(n, 1, k) \in f.files
                  THEN "ENOTDIR"
             ELSE "ENOENT"

Exists(f, p) == Stat(f, p) \in {"dir", "file"}

IsDir(f, p) == Stat(f, p) = "dir"

IsFile(f, p) == Stat(f, p) = "file"

ChildNames(f, n) == {m[Len(m)] : m \in {x \in Nodes(f) : Len(x) = Len(n) + 1 /\ IsPrefix(n, x)}}

\* os.listdir(p): [err, names]
ListDir(f, p) ==
    LET s == Stat(f, p)
    IN  IF s = "dir"
        THEN [err |-> "OK", names |-> SelectSeq(order, LAMBDA t : t \in ChildNames(f, Node(p)))]
        ELSE IF s = "ENOENT"
        THEN [err |-> "FileNotFoundError", names |-> <<>>]
        ELSE [err |-> "NotADirectoryError", names |-> <<>>]

\* ------------------------------------------------------------- history
\* one more call, of at most MaxCalls
Tick == calls < MaxCalls /\ calls' = calls + 1

\* a call, the argument it was given (<<>> when it takes none), its outcome ("OK"
\* when it returned, the exception's name when it raised), the current path it was
\* made from, and whether it repeats the call before it
Call(op, result, arg) ==
    [op |-> op, result |-> result, arg |-> arg, from |-> current_path,
     again |-> (last.op = op /\ last.arg = arg)]

\* ------------------------------------------------------------- FileExplorer
StartPaths == { <<SEP, "u">> }

SetPaths == { <<"u">>, <<SEP, "u", SEP>>, <<SEP, "u", SEP, "a">> }

set_current_directory ==
    /\ Tick
    /\ \E p \in SetPaths :
           /\ current_path' = p
           /\ last' = Call("set_current_directory", "OK", p)
           /\ UNCHANGED <<fs, order, selected_files, current_directory_contents, menu>>

list_directory_contents ==
    /\ Tick
    /\ last' = Call("list_directory_contents", ListDir(fs, current_path).err, <<>>)
    /\ UNCHANGED <<fs, order, current_path, selected_files, current_directory_contents, menu>>

\* the outcome of navigate_to_index(index): [result, path]
NavigateNoCheck(f, path, index) ==
    LET l == ListDir(f, path)
    IN  IF l.err # "OK" THEN [result |-> l.err, path |-> path]
        ELSE IF index < 0 \/ index >= Len(l.names) THEN [result |-> "ValueError", path |-> path]
        ELSE [result |-> "OK", path |-> Join(path, <<l.names[index + 1]>>)]

\* navigate_to_index with the assignment of line 80 made before the test of line 79
NavigateAssignFirst(f, path, index) ==
    LET l == ListDir(f, path)
    IN  IF l.err # "OK" THEN [result |-> l.err, path |-> path]
        ELSE IF index < 0 \/ index >= Len(l.names) THEN [result |-> "ValueError", path |-> path]
        ELSE LET full_path == Join(path, <<l.names[index + 1]>>)
             IN  IF IsDir(f, full_path)
                 THEN [result |-> "OK", path |-> full_path]
                 ELSE [result |-> "NotADirectoryError", path |-> full_path]

Navigate(f, path, index) ==
    LET l == ListDir(f, path)
    IN  IF l.err # "OK" THEN [result |-> l.err, path |-> path]
        ELSE IF index < 0 \/ index >= Len(l.names) THEN [result |-> "ValueError", path |-> path]
        ELSE LET full_path == Join(path, <<l.names[index + 1]>>)
             IN  IF IsDir(f, full_path)
                 THEN [result |-> "OK", path |-> full_path]
                 ELSE [result |-> "NotADirectoryError", path |-> path]

\* the indices a caller tries on a listing: each valid one, one below, one above
Indices(f, path) == -1..Len(ListDir(f, path).names)

\* navigate_to_index dropping the selection when it enters a directory
navigate_dropping_selection ==
    /\ Tick
    /\ \E index \in Indices(fs, current_path) :
           LET r == Navigate(fs, current_path, index)
           IN  /\ current_path' = r.path
               /\ selected_files' = IF r.result = "OK" THEN <<>> ELSE selected_files
               /\ last' = Call("navigate_to_index", r.result, index)
               /\ UNCHANGED <<fs, order, current_directory_contents, menu>>

navigate_to_index ==
    /\ Tick
    /\ \E index \in Indices(fs, current_path) :
           LET r == Navigate(fs, current_path, index)
           IN  /\ current_path' = r.path
               /\ last' = Call("navigate_to_index", r.result, index)
               /\ UNCHANGED <<fs, order, selected_files, current_directory_contents, menu>>

go_to_parent_directory ==
    /\ Tick
    /\ current_path' = Dirname(current_path)
    /\ last' = Call("go_to_parent_directory", "OK", <<>>)
    /\ UNCHANGED <<fs, order, selected_files, current_directory_contents, menu>>

\* ------------------------------------------------------------- FileSelector
\* load_directory_contents emptying the snapshot when the listing raises
LoadClearOnError(f, path, snap) ==
    LET l == ListDir(f, path)
    IN  [err |-> l.err, snap |-> l.names]

\* the outcome of load_directory_contents(): [err, snap]
Load(f, path, snap) ==
    LET l == ListDir(f, path)
    IN  [err |-> l.err, snap |-> IF l.err = "OK" THEN l.names ELSE snap]

load_directory_contents ==
    /\ Tick
    /\ LET l == Load(fs, current_path, current_directory_contents)
       IN  /\ current_directory_contents' = l.snap
           /\ last' = Call("load_directory_contents", l.err, <<>>)
           /\ UNCHANGED <<fs, order, current_path, selected_files, menu>>

\* the loop of select_files_by_indices with the test "i < len(...)" alone, so that a
\* negative index counts from the end as in contents[i]
RECURSIVE SelectLoopNoLowerBound(_, _, _, _, _)
SelectLoopNoLowerBound(dir, contents, indices, k, sel) ==
    IF k > Len(indices) THEN [result |-> "OK", sel |-> sel]
    ELSE IF indices[k] < Len(contents) /\ Len(contents) + indices[k] >= 0
    THEN SelectLoopNoLowerBound(dir, contents, indices, k + 1,
             Append(sel, Join(dir, <<contents[((indices[k] + Len(contents)) % Len(contents)) + 1]>>)))
    ELSE [result |-> "ValueError", sel |-> sel]

\* the loop of select_files_by_indices from position k on: [result, sel]
RECURSIVE SelectLoop(_, _, _, _, _)
SelectLoop(dir, contents, indices, k, sel) ==
    IF k > Len(indices) THEN [result |-> "OK", sel |-> sel]
    ELSE IF 0 <= indices[k] /\ indices[k] < Len(contents)
    THEN SelectLoop(dir, contents, indices, k + 1,
                    Append(sel, Join(dir, <<contents[indices[k] + 1]>>)))
    ELSE [result |-> "ValueError", sel |-> sel]

\* select_files_by_indices without the clear() of line 102
SelectKeepPrior(l, path, sel, indices) ==
    IF l.err # "OK" THEN [result |-> l.err, snap |-> l.snap, sel |-> sel]
    ELSE LET r == SelectLoop(path, l.snap, indices, 1, sel)
         IN  [result |-> r.result, snap |-> l.snap, sel |-> r.sel]

\* select_files_by_indices with the clear() moved before the listing
SelectClearFirst(l, path, sel, indices) ==
    IF l.err # "OK" THEN [result |-> l.err, snap |-> l.snap, sel |-> <<>>]
    ELSE LET r == SelectLoop(path, l.snap, indices, 1, <<>>)
         IN  [result |-> r.result, snap |-> l.snap, sel |-> r.sel]

\* the outcome of select_files_by_indices(indices), l being what its call of
\* load_directory_contents() gave: [result, snap, sel]
Select(l, path, sel, indices) ==
    IF l.err # "OK" THEN [result |-> l.err, snap |-> l.snap, sel |-> sel]
    ELSE LET r == SelectLoop(path, l.snap, indices, 1, <<>>)
         IN  [result |-> r.result, snap |-> l.snap, sel |-> r.sel]

\* the index lists a caller passes: up to MaxIndices of the indices it tries
IndexLists(f, path) == UNION { [1..n -> Indices(f, path)] : n \in 0..MaxIndices }

select_files_by_indices ==
    /\ Tick
    /\ LET l == Load(fs, current_path, current_directory_contents)
       IN  \E indices \in IndexLists(fs, current_path) :
               LET r == Select(l, current_path, selected_files, indices)
               IN  /\ current_directory_contents' = r.snap
                   /\ selected_files' = r.sel
                   /\ last' = Call("select_files_by_indices", r.result, indices)
                   /\ UNCHANGED <<fs, order, current_path, menu>>

clear_selection ==
    /\ Tick
    /\ selected_files' = <<>>
    /\ last' = Call("clear_selection", "OK", <<>>)
    /\ UNCHANGED <<fs, order, current_path, current_directory_contents, menu>>

\* ------------------------------------------------------------- filesystem calls
Ok(f) == [err |-> "OK", fs |-> f]

Fail(e, f) == [err |-> e, fs |-> f]

Parent(n) == SubSeq(n, 1, Len(n) - 1)

Prefixes(n) == {SubSeq(n, 1, k) : k \in 0..Len(n)}

SubTree(f, n) == {x \in Nodes(f) : IsPrefix(n, x)}

Rebase(x, s, d) == d \o SubSeq(x, Len(s) + 1, Len(x))

\* os.path.samefile(p, q), False when either is missing
SameFile(f, p, q) == Exists(f, p) /\ Exists(f, q) /\ Node(p) = Node(q)

\* an os.remove(p) that leaves the file in place
RemoveNothing(f, p) == f

\* os.remove(p) of a regular file
RemoveFile(f, p) == [dirs |-> f.dirs, files |-> f.files \ {Node(p)}]

\* shutil.rmtree(p)
RmTree(f, p) ==
    [dirs  |-> {x \in f.dirs : ~IsPrefix(Node(p), x)},
     files |-> {x \in f.files : ~IsPrefix(Node(p), x)}]

\* open(p, 'wb'): creates or truncates the regular file p
OpenWrite(f, p) ==
    LET s == Stat(f, p)
    IN  IF s = "dir" THEN Fail("IsADirectoryError", f)
        ELSE IF s = "file" THEN Ok(f)
        ELSE IF s = "ENOTDIR" THEN Fail("NotADirectoryError", f)
        ELSE IF p = <<>> \/ EndsWithSep(p) \/ Parent(Node(p)) \notin f.dirs
        THEN Fail("FileNotFoundError", f)
        ELSE Ok([dirs |-> f.dirs, files |-> f.files \cup {Node(p)}])

\* shutil.copyfile(src, dst) of an existing src
CopyFile(f, src, dst) ==
    IF SameFile(f, src, dst) THEN Fail("SameFileError", f)
    ELSE IF IsDir(f, src) THEN Fail("IsADirectoryError", f)
    ELSE OpenWrite(f, dst)

\* shutil.copy2(src, dst) of an existing src
Copy2(f, src, dst) ==
    CopyFile(f, src, IF IsDir(f, dst) THEN Join(dst, Basename(src)) ELSE dst)

\* os.rename(src, dst) of an existing src, dst not an existing directory
Rename(f, src, dst) ==
    LET s == Stat(f, dst)
        sn == Node(src)
        dn == Node(dst)
        moved == [dirs  |-> (f.dirs \ SubTree(f, sn))
                            \cup {Rebase(x, sn, dn) : x \in f.dirs \cap SubTree(f, sn)},
                  files |-> ((f.files \ SubTree(f, sn)) \ {dn})
                            \cup {Rebase(x, sn, dn) : x \in f.files \cap SubTree(f, sn)}]
    IN  IF dst = <<>> THEN Fail("ENOENT", f)
        ELSE IF s = "ENOTDIR" THEN Fail("ENOTDIR", f)
        ELSE IF s = "dir" THEN Fail("EISDIR", f)
        ELSE IF s = "file"
        THEN (IF IsDir(f, src) THEN Fail("ENOTDIR", f)
              ELSE IF sn = dn THEN Ok(f) ELSE Ok(moved))
        ELSE IF EndsWithSep(dst) /\ ~IsDir(f, src) THEN Fail("ENOTDIR", f)
        ELSE IF Parent(dn) \notin f.dirs THEN Fail("ENOENT", f)
        ELSE IF IsDir(f, src) /\ IsPrefix(sn, dn) THEN Fail("EINVAL", f)
        ELSE Ok(moved)

\* shutil.copytree(src, dst) of a directory src, then shutil.rmtree(src)
CopyTreeRmTree(f, src, dst) ==
    LET sn == Node(src)
        dn == Node(dst)
    IN  IF dst = <<>> THEN Fail("FileNotFoundError", f)
        ELSE IF Exists(f, dst) THEN Fail("FileExistsError", f)
        ELSE IF Stat(f, dst) = "ENOTDIR" THEN Fail("NotADirectoryError", f)
        ELSE Ok(RmTree([dirs  |-> f.dirs \cup Prefixes(dn)
                                  \cup {Rebase(x, sn, dn) : x \in f.dirs \cap SubTree(f, sn)},
                        files |-> f.files
                                  \cup {Rebase(x, sn, dn) : x \in f.files \cap SubTree(f, sn)}],
                       src))

\* shutil.move(src, dst) of an existing src
MoveTo(f, src, dst, real_dst) ==
    LET r == Rename(f, src, real_dst)
    IN  IF r.err = "OK" THEN r
        ELSE IF IsDir(f, src)
        THEN (IF IsPrefix(Node(src), Node(dst)) THEN Fail("Error", f)
              ELSE CopyTreeRmTree(f, src, real_dst))
        ELSE LET c == Copy2(f, src, real_dst)
             IN  IF c.err = "OK" THEN Ok(RemoveFile(c.fs, src)) ELSE c

\* shutil.copy2 in the place of shutil.move: the source stays
MoveAsCopy(f, src, dst) == Copy2(f, src, dst)

Move(f, src, dst) ==
    IF IsDir(f, dst)
    THEN IF SameFile(f, src, dst) THEN Ok(f)
         ELSE IF Exists(f, Join(dst, StripBasename(src))) THEN Fail("Error", f)
         ELSE MoveTo(f, src, dst, Join(dst, StripBasename(src)))
    ELSE MoveTo(f, src, dst, dst)

\* ------------------------------------------------------------- FileManager
\* the loops of copy_files, move_files and delete_files from position k on
RECURSIVE CopyLoop(_, _, _, _)
CopyLoop(f, files, k, destination) ==
    IF k > Len(files) THEN Ok(f)
    ELSE IF Exists(f, files[k])
    THEN LET r == Copy2(f, files[k], destination)
         IN  IF r.err = "OK" THEN CopyLoop(r.fs, files, k + 1, destination) ELSE r
    ELSE Fail("FileNotFoundError", f)

\* the loop of move_files without its else branch: a missing path is passed over
RECURSIVE MoveLoopSkipMissing(_, _, _, _)
MoveLoopSkipMissing(f, files, k, destination) ==
    IF k > Len(files) THEN Ok(f)
    ELSE IF Exists(f, files[k])
    THEN LET r == Move(f, files[k], destination)
         IN  IF r.err = "OK" THEN MoveLoopSkipMissing(r.fs, files, k + 1, destination) ELSE r
    ELSE MoveLoopSkipMissing(f, files, k + 1, destination)

RECURSIVE MoveLoop(_, _, _, _)
MoveLoop(f, files, k, destination) ==
    IF k > Len(files) THEN Ok(f)
    ELSE IF Exists(f, files[k])
    THEN LET r == Move(f, files[k], destination)
         IN  IF r.err = "OK" THEN MoveLoop(r.fs, files, k + 1, destination) ELSE r
    ELSE Fail("FileNotFoundError", f)

\* the loop of delete_files without its else branch: a missing path is passed over
RECURSIVE DeleteLoopNoRaise(_, _, _)
DeleteLoopNoRaise(f, files, k) ==
    IF k > Len(files) THEN Ok(f)
    ELSE IF IsFile(f, files[k]) THEN DeleteLoopNoRaise(RemoveFile(f, files[k]), files, k + 1)
    ELSE IF IsDir(f, files[k]) THEN DeleteLoopNoRaise(RmTree(f, files[k]), files, k + 1)
    ELSE DeleteLoopNoRaise(f, files, k + 1)

\* the loop of delete_files going on to the paths after the one it raises for
RECURSIVE DeleteLoopGoOn(_, _, _)
DeleteLoopGoOn(f, files, k) ==
    IF k > Len(files) THEN Ok(f)
    ELSE IF IsFile(f, files[k]) THEN DeleteLoopGoOn(RemoveFile(f, files[k]), files, k + 1)
    ELSE IF IsDir(f, files[k]) THEN DeleteLoopGoOn(RmTree(f, files[k]), files, k + 1)
    ELSE Fail("FileNotFoundError", DeleteLoopGoOn(f, files, k + 1).fs)

RECURSIVE DeleteLoop(_, _, _)
DeleteLoop(f, files, k) ==
    IF k > Len(files) THEN Ok(f)
    ELSE IF IsFile(f, files[k]) THEN DeleteLoop(RemoveFile(f, files[k]), files, k + 1)
    ELSE IF IsDir(f, files[k]) THEN DeleteLoop(RmTree(f, files[k]), files, k + 1)
    ELSE Fail("FileNotFoundError", f)

\* the selection a bulk call leaves: cleared after the loop, kept when the loop raised
AfterBulkAlwaysClear(err, sel) == <<>>

AfterBulkNeverClear(err, sel) == sel

AfterBulk(err, sel) == IF err = "OK" THEN <<>> ELSE sel

Dests == { <<SEP, "t">>, <<SEP, "x">>, <<SEP, "u", SEP, "d">> }

copy_files ==
    /\ Tick
    /\ \E destination \in Dests :
           LET r == CopyLoop(fs, selected_files, 1, destination)
           IN  /\ fs' = r.fs
               /\ selected_files' = AfterBulk(r.err, selected_files)
               /\ last' = Call("copy_files", r.err, destination)
               /\ UNCHANGED <<order, current_path, current_directory_contents, menu>>

move_files ==
    /\ Tick
    /\ \E destination \in Dests :
           LET r == MoveLoop(fs, selected_files, 1, destination)
           IN  /\ fs' = r.fs
               /\ selected_files' = AfterBulk(r.err, selected_files)
               /\ last' = Call("move_files", r.err, destination)
               /\ UNCHANGED <<order, current_path, current_directory_contents, menu>>

delete_files ==
    /\ Tick
    /\ LET r == DeleteLoop(fs, selected_files, 1)
       IN  /\ fs' = r.fs
           /\ selected_files' = AfterBulk(r.err, selected_files)
           /\ last' = Call("delete_files", r.err, <<>>)
           /\ UNCHANGED <<order, current_path, current_directory_contents, menu>>

\* ------------------------------------------------------------- specification
InitFs ==
    [dirs  |-> {Root, <<"u">>, <<"u", "d">>, <<"t">>},
     files |-> {<<"u", "a">>, <<"u", "d", "a">>, <<"u", "d", "b">>}]

Orders == { <<"a", "b", "d", "t", "u", "x">>, <<"x", "u", "t", "d", "b", "a">> }

Init ==
    /\ fs = InitFs
    /\ order \in Orders
    /\ current_path \in StartPaths
    /\ selected_files = <<>>
    /\ current_directory_contents = <<>>
    /\ last = [op |-> "init", result |-> "OK", arg |-> <<>>, from |-> current_path,
               again |-> FALSE]
    /\ calls = 0
    /\ menu = [loop |-> "off", out |-> "none"]

Next ==
    \/ set_current_directory
    \/ list_directory_contents
    \/ navigate_to_index
    \/ go_to_parent_directory
    \/ load_directory_contents
    \/ select_files_by_indices
    \/ clear_selection
    \/ copy_files
    \/ move_files
    \/ delete_files

Spec == Init /\ [][Next]_vars

\* ------------------------------------------------------------- main_menu
\* what display_directory_contents prints: the listing, or the error it caught
Display(f, path) == IF ListDir(f, path).err = "OK" THEN "listing" ELSE "error"

\* the loop after a command: back at the prompt, out being the confirmation the
\* command printed, or "error" when the handler of line 231 printed the exception
Handled(result, out) ==
    [loop |-> "prompt", out |-> IF result = "OK" THEN out ELSE "error"]

\* what input() gives where a line is asked for: a line, or EOFError at end of input
Inputs == {"line", "eof"}

\* what int() makes of a line: an integer, or ValueError
IntInputs == {"int", "text", "eof"}

InputError(how) == IF how = "eof" THEN "EOFError" ELSE "ValueError"

\* the index lists a line of input can give: "".split(',') is [''], never []
MenuIndexLists(f, path) == {indices \in IndexLists(f, path) : indices # <<>>}

menu_display ==
    /\ Tick
    /\ menu.loop = "prompt"
    /\ menu' = Handled("OK", Display(fs, current_path))
    /\ last' = Call("1", "OK", <<>>)
    /\ UNCHANGED <<fs, order, current_path, selected_files, current_directory_contents>>

menu_navigate ==
    /\ Tick
    /\ menu.loop = "prompt"
    /\ \E how \in IntInputs :
         \E index \in (IF how = "int" THEN Indices(fs, current_path) ELSE {0}) :
           LET r == IF how = "int" THEN Navigate(fs, current_path, index)
                    ELSE [result |-> InputError(how), path |-> current_path]
           IN  /\ current_path' = r.path
               /\ menu' = Handled(r.result, Display(fs, r.path))
               /\ last' = Call("2", r.result, index)
               /\ UNCHANGED <<fs, order, selected_files, current_directory_contents>>

menu_parent ==
    /\ Tick
    /\ menu.loop = "prompt"
    /\ current_path' = Dirname(current_path)
    /\ menu' = Handled("OK", Display(fs, Dirname(current_path)))
    /\ last' = Call("3", "OK", <<>>)
    /\ UNCHANGED <<fs, order, selected_files, current_directory_contents>>

menu_select ==
    /\ Tick
    /\ menu.loop = "prompt"
    /\ \E how \in IntInputs :
         \E indices \in (IF how = "int" THEN MenuIndexLists(fs, current_path) ELSE {<<>>}) :
           LET l == Load(fs, current_path, current_directory_contents)
               r == IF how = "int" THEN Select(l, current_path, selected_files, indices)
                    ELSE [result |-> InputError(how),
                          snap |-> current_directory_contents, sel |-> selected_files]
           IN  /\ current_directory_contents' = r.snap
               /\ selected_files' = r.sel
               /\ menu' = Handled(r.result, "selected")
               /\ last' = Call("4", r.result, indices)
               /\ UNCHANGED <<fs, order, current_path>>

menu_copy ==
    /\ Tick
    /\ menu.loop = "prompt"
    /\ \E how \in Inputs :
         \E destination \in (IF how = "line" THEN Dests ELSE {<<>>}) :
           LET r == IF how = "line" THEN CopyLoop(fs, selected_files, 1, destination)
                    ELSE Fail(InputError(how), fs)
           IN  /\ fs' = r.fs
               /\ selected_files' = AfterBulk(r.err, selected_files)
               /\ menu' = Handled(r.err, "copied")
               /\ last' = Call("5", r.err, destination)
               /\ UNCHANGED <<order, current_path, current_directory_contents>>

menu_move ==
    /\ Tick
    /\ menu.loop = "prompt"
    /\ \E how \in Inputs :
         \E destination \in (IF how = "line" THEN Dests ELSE {<<>>}) :
           LET r == IF how = "line" THEN MoveLoop(fs, selected_files, 1, destination)
                    ELSE Fail(InputError(how), fs)
           IN  /\ fs' = r.fs
               /\ selected_files' = AfterBulk(r.err, selected_files)
               /\ menu' = Handled(r.err, "moved")
               /\ last' = Call("6", r.err, destination)
               /\ UNCHANGED <<order, current_path, current_directory_contents>>

menu_delete ==
    /\ Tick
    /\ menu.loop = "prompt"
    /\ LET r == DeleteLoop(fs, selected_files, 1)
       IN  /\ fs' = r.fs
           /\ selected_files' = AfterBulk(r.err, selected_files)
           /\ menu' = Handled(r.err, "deleted")
           /\ last' = Call("7", r.err, <<>>)
           /\ UNCHANGED <<order, current_path, current_directory_contents>>

menu_quit ==
    /\ Tick
    /\ menu.loop = "prompt"
    /\ menu' = [loop |-> "quit", out |-> "goodbye"]
    /\ last' = Call("8", "OK", <<>>)
    /\ UNCHANGED <<fs, order, current_path, selected_files, current_directory_contents>>

menu_invalid_choice ==
    /\ Tick
    /\ menu.loop = "prompt"
    /\ menu' = Handled("OK", "invalid")
    /\ last' = Call("other", "OK", <<>>)
    /\ UNCHANGED <<fs, order, current_path, selected_files, current_directory_contents>>

\* input() of line 185, outside the try statement, meets the end of input: EOFError
\* leaves main_menu
menu_end_of_input ==
    /\ Tick
    /\ menu.loop = "prompt"
    /\ menu' = [loop |-> "raised", out |-> "traceback"]
    /\ last' = Call("input", "EOFError", <<>>)
    /\ UNCHANGED <<fs, order, current_path, selected_files, current_directory_contents>>

MenuInit ==
    /\ fs = InitFs
    /\ order \in Orders
    /\ current_path \in StartPaths
    /\ selected_files = <<>>
    /\ current_directory_contents = <<>>
    /\ last = [op |-> "init", result |-> "OK", arg |-> <<>>, from |-> current_path,
               again |-> FALSE]
    /\ calls = 0
    /\ menu = [loop |-> "prompt", out |-> "none"]

MenuNext ==
    \/ menu_display
    \/ menu_navigate
    \/ menu_parent
    \/ menu_select
    \/ menu_copy
    \/ menu_move
    \/ menu_delete
    \/ menu_quit
    \/ menu_invalid_choice
    \/ menu_end_of_input

MenuSpec == MenuInit /\ [][MenuNext]_vars

\* ------------------------------------------------------------- properties
BulkOps == {"copy_files", "move_files", "delete_files"}

\* the call that a step makes
Called(op) == last'.op = op

\* the listing the call of a step starts from
Listing == ListDir(fs, current_path)

ValidIndex(i) == 0 <= i /\ i < Len(Listing.names)

C2_SuccessOrClearLeavesEmpty ==
    /\ (last.op \in BulkOps /\ last.result = "OK") => selected_files = <<>>
    /\ last.op = "clear_selection" => (last.result = "OK" /\ selected_files = <<>>)

\* a move_files call has just completed and moved something
C2_Witness ==
    /\ last.op = "move_files"
    /\ last.result = "OK"
    /\ selected_files = <<>>
    /\ fs # InitFs

\* C3: for a valid index i, navigate_to_index(i) sets the current path to
\* join(old path, entry i) when entry i is a directory, and raises
\* NotADirectoryError leaving the current path unchanged when it is not.
C3_NavigateToValidIndex ==
    [][(Called("navigate_to_index") /\ Listing.err = "OK" /\ ValidIndex(last'.arg)) =>
         LET entry == Listing.names[last'.arg + 1]
         IN  IF Node(current_path) \o <<entry>> \in fs.dirs
             THEN /\ last'.result = "OK"
                  /\ current_path' = Join(current_path, <<entry>>)
                  /\ Node(current_path') = Node(current_path) \o <<entry>>
             ELSE /\ last'.result = "NotADirectoryError"
                  /\ current_path' = current_path]_vars

C3_Witness ==
    /\ last.op = "navigate_to_index"
    /\ last.result = "OK"
    /\ current_path = <<SEP, "u", SEP, "d">>

\* C4: with every index valid, select_files_by_indices(indices) stores the listing of
\* the current path as the snapshot and leaves the selection equal to
\* join(current path, snapshot[i]) for each i of indices, in order, duplicates kept,
\* nothing of the prior selection left.
C4_SelectValidIndices ==
    [][(/\ Called("select_files_by_indices")
        /\ Listing.err = "OK"
        /\ \A k \in 1..Len(last'.arg) : ValidIndex(last'.arg[k])) =>
         /\ last'.result = "OK"
         /\ current_directory_contents' = Listing.names
         /\ Len(selected_files') = Len(last'.arg)
         /\ \A k \in 1..Len(last'.arg) :
                selected_files'[k] =
                    Join(current_path, <<current_directory_contents'[last'.arg[k] + 1]>>)]_vars

\* the same index selected twice, after the directory was entered by navigation
C4_Witness ==
    /\ last.op = "select_files_by_indices"
    /\ last.result = "OK"
    /\ last.arg = <<0, 0>>
    /\ current_path = <<SEP, "u", SEP, "d">>
    /\ selected_files = << <<SEP, "u", SEP, "d", SEP, "b">>, <<SEP, "u", SEP, "d", SEP, "b">> >>

\* the position of the first invalid index of a list that has one
FirstInvalid(indices) ==
    CHOOSE k \in 1..Len(indices) :
        /\ ~ValidIndex(indices[k])
        /\ \A j \in 1..(k - 1) : ValidIndex(indices[j])

\* C5: when the first invalid index is at position k, select_files_by_indices raises
\* ValueError and the selection is exactly the resolved paths of the indices before k.
C5_SelectStopsAtFirstInvalid ==
    [][(/\ Called("select_files_by_indices")
        /\ Listing.err = "OK"
        /\ \E k \in 1..Len(last'.arg) : ~ValidIndex(last'.arg[k])) =>
         LET k == FirstInvalid(last'.arg)
         IN  /\ last'.result = "ValueError"
             /\ selected_files' =
                    [j \in 1..(k - 1) |->
                        Join(current_path, <<Listing.names[last'.arg[j] + 1]>>)]]_vars

C5_Witness ==
    /\ last.op = "select_files_by_indices"
    /\ last.result = "ValueError"
    /\ last.arg = <<1, -1>>
    /\ Len(selected_files) = 1

\* C6 (as stated): in every reachable state select_files_by_indices([]) does not fail
\* and leaves the selection empty.
C6_SelectNothingNeverFails ==
    (last.op = "select_files_by_indices" /\ last.arg = <<>>) =>
        (last.result = "OK" /\ selected_files = <<>>)

\* C6 (amended): select_files_by_indices([]) completes and leaves the selection empty
\* whenever the current path can be listed; when the listing raises, the call raises
\* that error and the selection stays as it was.
C6_SelectNothing ==
    [][(Called("select_files_by_indices") /\ last'.arg = <<>>) =>
         IF Listing.err = "OK"
         THEN last'.result = "OK" /\ selected_files' = <<>>
         ELSE last'.result = Listing.err /\ selected_files' = selected_files]_vars

\* the empty list was selected over a prior selection
C6_Witness ==
    /\ last.op = "select_files_by_indices"
    /\ last.arg = <<>>
    /\ last.result = "OK"
    /\ selected_files = <<>>
    /\ calls >= 2

\* the entries a listing of path p shows in filesystem f, each as a one-name path,
\* {} when p cannot be listed
Listed(f, p) == {<<ListDir(f, p).names[j]>> : j \in 1..Len(ListDir(f, p).names)}

Selected == {selected_files[k] : k \in 1..Len(selected_files)}

\* C7: after copy_files(dest), with dest an existing directory, listing dest shows
\* an entry with the base name of each selected path that existed.
C7_CopiedNamesListedInDest ==
    [][(Called("copy_files") /\ IsDir(fs, last'.arg)) =>
         \A p \in Selected :
             Exists(fs, p) => Basename(p) \in Listed(fs', last'.arg)]_vars

\* C8: copy_files(dest) on a selection of existing directories, dest an existing
\* directory outside them, completes, and everything beneath each selected directory
\* is then present beneath dest.
C8_CopyHandlesDirectories ==
    [][(/\ Called("copy_files")
        /\ Selected # {}
        /\ \A p \in Selected : IsDir(fs, p)
        /\ IsDir(fs, last'.arg)
        /\ \A p \in Selected : /\ ~IsPrefix(Node(p), Node(last'.arg))
                               /\ Parent(Node(p)) # Node(last'.arg)) =>
         /\ last'.result = "OK"
         /\ \A p \in Selected : \A x \in SubTree(fs, Node(p)) :
                Rebase(x, Parent(Node(p)), Node(last'.arg)) \in Nodes(fs')]_vars

\* the nodes at or beneath a selected path
UnderSelected(f) == {x \in Nodes(f) : \E p \in Selected : IsPrefix(Node(p), x)}

NoDuplicates(seq) == \A j, k \in 1..Len(seq) : seq[j] = seq[k] => j = k

\* C9: delete_files() raises FileNotFoundError when a selected path does not exist,
\* and completes when the selected paths exist and are distinct; after a call that
\* completed no selected path nor anything beneath one exists, every other entry
\* is still there, nothing was created, and the selection is empty.
C9_DeleteRemovesExactlyTheSelection ==
    [][Called("delete_files") =>
         /\ (\E p \in Selected : ~Exists(fs, p)) => last'.result = "FileNotFoundError"
         /\ ((\A p \in Selected : Exists(fs, p)) /\ NoDuplicates(selected_files))
                => last'.result = "OK"
         /\ last'.result = "OK" =>
                /\ \A p \in Selected : ~Exists(fs', p)
                /\ fs'.dirs = fs.dirs \ UnderSelected(fs)
                /\ fs'.files = fs.files \ UnderSelected(fs)
                /\ selected_files' = <<>>]_vars

\* a regular file and a non-empty directory were deleted in one call
C9_Witness ==
    /\ last.op = "delete_files"
    /\ last.result = "OK"
    /\ fs = [dirs |-> {Root, <<"u">>, <<"t">>}, files |-> {}]
    /\ selected_files = <<>>

\* C10 (as stated): after a move_files(dest) that completed, every selected path no
\* longer exists where it was and dest lists an entry with its base name; a selected
\* path that does not exist makes the call raise FileNotFoundError.
C10_MovedIntoDestination ==
    [][Called("move_files") =>
         /\ (\E p \in Selected : ~Exists(fs, p)) => last'.result = "FileNotFoundError"
         /\ last'.result = "OK" =>
                \A p \in Selected :
                    /\ ~Exists(fs', p)
                    /\ Basename(p) \in Listed(fs', last'.arg)]_vars

\* C10 (amended): when dest is an existing directory, after a move_files(dest) that
\* completed every selected path other than dest itself no longer exists where it
\* was and dest lists an entry with its base name, and a call on a selection holding
\* a path that does not exist raises; whatever dest is, the call raises
\* FileNotFoundError when the first selected path does not exist.
C10_MovedIntoExistingDirectory ==
    [][Called("move_files") =>
         /\ IsDir(fs, last'.arg) =>
                /\ (\E p \in Selected : ~Exists(fs, p)) => last'.result # "OK"
                /\ last'.result = "OK" =>
                       \A p \in Selected :
                           Node(p) # Node(last'.arg) =>
                               /\ ~Exists(fs', p)
                               /\ Basename(p) \in Listed(fs', last'.arg)
         /\ (selected_files # <<>> /\ ~Exists(fs, selected_files[1]))
                => last'.result = "FileNotFoundError"]_vars

\* a regular file and a directory were moved into /t in one call
C10_Witness ==
    /\ last.op = "move_files"
    /\ last.result = "OK"
    /\ last.arg = <<SEP, "t">>
    /\ <<"t", "a">> \in fs.files
    /\ <<"t", "d", "b">> \in fs.files
    /\ <<"u", "a">> \notin fs.files
    /\ <<"u", "d">> \notin fs.dirs

\* C11 (as stated): go_to_parent_directory() right after a navigate_to_index(i) that
\* completed from current path p sets the current path to exactly p.
C11_ParentUndoesNavigate ==
    [][(/\ Called("go_to_parent_directory")
        /\ last.op = "navigate_to_index"
        /\ last.result = "OK") =>
         current_path' = last.from]_vars

\* C11 (amended): go_to_parent_directory() right after a navigate_to_index(i) that
\* completed from current path p sets the current path to a path of the directory p
\* names, and to exactly p when p does not end with a separator or consists of
\* separators only.
C11_ParentUndoesNavigateUpToTrailingSep ==
    [][(/\ Called("go_to_parent_directory")
        /\ last.op = "navigate_to_index"
        /\ last.result = "OK") =>
         /\ Node(current_path') = Node(last.from)
         /\ StartsWithSep(current_path') = StartsWithSep(last.from)
         /\ (~EndsWithSep(last.from) \/ AllSep(last.from)) => current_path' = last.from]_vars

\* /u was entered from the root and left again: the second call made the current
\* path /u, which only navigate_to_index does from /
C11_Witness ==
    /\ calls = 3
    /\ last.op = "go_to_parent_directory"
    /\ last.from = <<SEP, "u">>
    /\ current_path = <<SEP>>

\* C12: go_to_parent_directory() never raises; made from an absolute current path it
\* leaves an absolute, non-empty current path: the same path when that path is the
\* root, a strictly shorter one naming no deeper a directory otherwise, so that
\* repeated calls reach the root and stay there.
C12_ParentOfAbsolutePath ==
    last.op = "go_to_parent_directory" =>
        /\ last.result = "OK"
        /\ StartsWithSep(last.from) =>
               /\ current_path # <<>>
               /\ StartsWithSep(current_path)
               /\ IF Node(last.from) = Root
                  THEN current_path = last.from
                  ELSE /\ Len(current_path) < Len(last.from)
                       /\ Len(Node(current_path)) <= Len(Node(last.from))
                       /\ IsPrefix(Node(current_path), Node(last.from))

\* the parent of the root was taken
C12_Witness ==
    /\ last.op = "go_to_parent_directory"
    /\ last.from = <<SEP>>
    /\ current_path = <<SEP>>

\* C13: navigate_to_index(i) with i < 0 or i >= len(listing of the current path)
\* raises ValueError; a navigate_to_index call that raises, whether from the listing,
\* the index or an entry that is not a directory, leaves the current path unchanged.
C13_FailedNavigateKeepsPath ==
    [][Called("navigate_to_index") =>
         /\ (Listing.err = "OK" /\ ~ValidIndex(last'.arg)) => last'.result = "ValueError"
         /\ Listing.err # "OK" => last'.result = Listing.err
         /\ last'.result # "OK" => current_path' = current_path
         /\ current_path' # current_path => last'.result = "OK"]_vars

\* a negative index was refused in a directory that has entries
C13_Witness ==
    /\ last.op = "navigate_to_index"
    /\ last.result = "ValueError"
    /\ last.arg = -1
    /\ current_path = last.from
    /\ ListDir(fs, current_path).names # <<>>

MenuCommands == {"2", "3", "4", "5", "6", "7"}

\* C14: in main_menu every exception raised while a command runs, an index that
\* int() cannot parse included, is caught: an error line is printed and the loop is
\* back at its prompt; and the loop ends only when quit was chosen.
C14_LoopEndsOnlyOnQuit ==
    /\ (last.op \in MenuCommands /\ last.result # "OK") =>
           menu = [loop |-> "prompt", out |-> "error"]
    /\ menu.loop # "prompt" => (menu.loop = "quit" /\ last.op = "8")

\* C14, its first half alone: every exception raised while a command runs is caught,
\* an error line is printed and the loop is back at its prompt.
C14_CommandFailuresCaught ==
    (last.op \in MenuCommands /\ last.result # "OK") =>
        menu = [loop |-> "prompt", out |-> "error"]

\* C15: a select_files_by_indices(indices) call that repeats the call before it, which
\* completed, with nothing done in between, completes and leaves the same selection
\* (and the same snapshot) as that call left.
C15_SelectTwiceSameSelection ==
    [][(/\ Called("select_files_by_indices")
        /\ last.op = "select_files_by_indices"
        /\ last.result = "OK"
        /\ last'.arg = last.arg) =>
         /\ last'.again
         /\ last'.result = "OK"
         /\ selected_files' = selected_files
         /\ current_directory_contents' = current_directory_contents]_vars

\* two entries of /u were selected twice in a row
C15_Witness ==
    /\ last.op = "select_files_by_indices"
    /\ last.again
    /\ last.result = "OK"
    /\ last.arg = <<1, 0>>
    /\ last.from = <<SEP, "u">>
    /\ Len(selected_files) = 2
    /\ selected_files[1] # selected_files[2]

\* what the body of the loop of a bulk call does with one selected path p
ApplyOne(op, f, p, destination) ==
    IF op = "delete_files"
    THEN (IF IsFile(f, p) THEN Ok(RemoveFile(f, p))
          ELSE IF IsDir(f, p) THEN Ok(RmTree(f, p))
          ELSE Fail("FileNotFoundError", f))
    ELSE IF ~Exists(f, p) THEN Fail("FileNotFoundError", f)
    ELSE IF op = "copy_files" THEN Copy2(f, p, destination)
    ELSE Move(f, p, destination)

\* the filesystem once the first n paths of files have been dealt with, in order
RECURSIVE AppliedTo(_, _, _, _, _)
AppliedTo(op, f, files, n, destination) ==
    IF n = 0 THEN f
    ELSE ApplyOne(op, AppliedTo(op, f, files, n - 1, destination), files[n], destination).fs

\* C16: a bulk call that raises raises at some k-th selected path: the paths 1..k-1
\* were each dealt with, in selection order, the k-th raised, and the filesystem is
\* left exactly as it was after path k-1 (nothing undone, nothing done for k..n).
C16_StopsAtFirstFailure ==
    [][\A op \in BulkOps :
         (Called(op) /\ last'.result # "OK") =>
             \E k \in 1..Len(selected_files) :
                 /\ \A j \in 1..(k - 1) :
                        ApplyOne(op, AppliedTo(op, fs, selected_files, j - 1, last'.arg),
                                 selected_files[j], last'.arg).err = "OK"
                 /\ ApplyOne(op, AppliedTo(op, fs, selected_files, k - 1, last'.arg),
                             selected_files[k], last'.arg).err = last'.result
                 /\ fs' = AppliedTo(op, fs, selected_files, k - 1, last'.arg)]_vars

\* move_files('/x') renamed /u/a to /x and raised at the second path, /u/d, which
\* is still in place
C16_Witness ==
    /\ last.op = "move_files"
    /\ last.result # "OK"
    /\ last.arg = <<SEP, "x">>
    /\ selected_files = << <<SEP, "u", SEP, "a">>, <<SEP, "u", SEP, "d">> >>
    /\ <<"x">> \in fs.files
    /\ <<"u", "a">> \notin fs.files
    /\ <<"u", "d", "b">> \in fs.files

NavigationOps ==
    {"navigate_to_index", "go_to_parent_directory", "set_current_directory",
     "list_directory_contents", "load_directory_contents"}

\* C17: navigate_to_index, go_to_parent_directory, set_current_directory,
\* list_directory_contents and load_directory_contents leave the selection (and the
\* filesystem) as it was, whatever their outcome, so the paths a later bulk call
\* acts on are the ones resolved when the selection was made.
C17_NavigationKeepsSelection ==
    [][(\E op \in NavigationOps : Called(op)) =>
         /\ selected_files' = selected_files
         /\ fs' = fs]_vars

\* /u/a was selected in /u, /u/d was entered, and delete_files() called from /u/d
\* removed /u/a
C17_Witness ==
    /\ calls = 3
    /\ last.op = "delete_files"
    /\ last.result = "OK"
    /\ last.from = <<SEP, "u", SEP, "d">>
    /\ fs.files = InitFs.files \ {<<"u", "a">>}
    /\ fs.dirs = InitFs.dirs

\* C18: when the listing of the current path raises inside select_files_by_indices,
\* the call raises that error and both the selection and the snapshot stay as they
\* were before the call.
C18_FailedListingKeepsSelection ==
    [][(Called("select_files_by_indices") /\ Listing.err # "OK") =>
         /\ last'.result = Listing.err
         /\ selected_files' = selected_files
         /\ current_directory_contents' = current_directory_contents]_vars

\* /u/a was selected, the current path was set to the regular file /u/a, and a
\* selection there raised and left the selection and the snapshot of /u in place
C18_Witness ==
    /\ last.op = "select_files_by_indices"
    /\ last.result = "NotADirectoryError"
    /\ last.from = <<SEP, "u", SEP, "a">>
    /\ selected_files = << <<SEP, "u", SEP, "a">> >>
    /\ Len(current_directory_contents) = 2

RemovingOps == {"move_files", "delete_files"}

\* the call of a step raises, and not at the first selected path
RaisesAfterFirst(op) ==
    /\ Called(op)
    /\ last'.result # "OK"
    /\ selected_files # <<>>
    /\ ApplyOne(op, fs, selected_files[1], last'.arg).err = "OK"

\* a delete_files or move_files call made on a selection whose first path does not
\* exist raises FileNotFoundError and leaves the filesystem and the selection alone
RetryRaisesAtFirstPath ==
    \A op \in RemovingOps :
        (Called(op) /\ selected_files # <<>> /\ ~Exists(fs, selected_files[1])) =>
            /\ last'.result = "FileNotFoundError"
            /\ fs' = fs
            /\ selected_files' = selected_files

SelectedTwice ==
    /\ ~NoDuplicates(selected_files)
    /\ \A p \in Selected : Exists(fs, p)

\* the position of the first path of the selection that is there a second time
SecondOccurrence ==
    CHOOSE k \in 1..Len(selected_files) :
        /\ \E j \in 1..(k - 1) : selected_files[j] = selected_files[k]
        /\ \A i \in 1..(k - 1) : \A j \in 1..(i - 1) : selected_files[j] # selected_files[i]

====
